---- MODULE Spec2Model ----
(***************************************************************************)
(* Model of src/app.py: the Streamlit equity-valuation dashboard.          *)
(*                                                                         *)
(* The specifications share the variables:                                 *)
(*   SpecRecent  update_recent_list driven by arbitrary calls, starting    *)
(*               from the session-state initialisation of lines 21-24;     *)
(*   Spec        the script run that a press of the search button starts   *)
(*               (lines 223-1052): get_stock_data followed by the page;    *)
(*   SpecPrice, SpecHistPe, SpecPollution, SpecBlend, SpecBand, SpecPeg    *)
(*               one calculation of the script each, applied to inputs     *)
(*               drawn in the initial state.                               *)
(*                                                                         *)
(* Numbers the code holds as floats are exact rationals [n, d] here, so    *)
(* that every comparison of the code (> 0, abs(..) > 100, the clamp) is    *)
(* decided exactly.                                                        *)
(***************************************************************************)
EXTENDS Integers, Sequences, FiniteSets, TLC

VARIABLES
    recent_searches,  \* st.session_state.recent_searches, a sequence of rows
    lastCall,         \* the last update_recent_list call: its arguments and the row count before it
    ticker,           \* the sidebar text input after .strip().upper()
    data,             \* what get_stock_data returned in the last run, or NoData
    raw,              \* what the providers answered in the last run, or NoRaw
    steps,            \* the page sections the last run executed, in order
    outcome,          \* how the last run ended
    calc              \* one calculation of the page taken alone: its inputs and, once applied, its results

vars == <<recent_searches, lastCall, ticker, raw, data, steps, outcome, calc>>

----------------------------------------------------------------------------
(* Rational arithmetic standing for Python floats.                         *)

RECURSIVE Gcd(_, _)
Gcd(a, b) == IF b = 0 THEN a ELSE Gcd(b, a % b)
Abs(i) == IF i < 0 THEN -i ELSE i
\* the fraction n/d (d > 0) in lowest terms
Rat(n, d) == LET g == Gcd(Abs(n), d) IN [n |-> n \div g, d |-> d \div g]
RInt(i) == [n |-> i, d |-> 1]
RAdd(a, b) == Rat(a.n * b.d + b.n * a.d, a.d * b.d)
RSub(a, b) == Rat(a.n * b.d - b.n * a.d, a.d * b.d)
RMul(a, b) == Rat(a.n * b.n, a.d * b.d)
\* a / b for b # 0
RDiv(a, b) == IF b.n > 0 THEN Rat(a.n * b.d, a.d * b.n)
                         ELSE Rat(-(a.n * b.d), -(a.d * b.n))
RLt(a, b) == a.n * b.d < b.n * a.d
RLe(a, b) == a.n * b.d <= b.n * a.d
REq(a, b) == a.n * b.d = b.n * a.d
RAbs(a) == IF a.n < 0 THEN Rat(-a.n, a.d) ELSE a
\* Python's min(a, b) and max(a, b): the first argument unless the second is
\* strictly smaller (larger)
PyMin(a, b) == IF RLt(b, a) THEN b ELSE a
PyMax(a, b) == IF RLt(a, b) THEN b ELSE a
\* truthiness of a number: non-zero
Truthy(a) == a.n # 0

----------------------------------------------------------------------------
(* The recent-searches list, lines 21-24 and 196-216.                      *)

\* the value pandas gives a row in a column the row has no value for
NaN == "NaN"

\* rows kept by .head(10), line 216
RecentCap == 10
\* characters of the company name kept before "...", line 200
NameCut == 20

\* str.upper() on the ticker spellings the model draws from
Upper(t) ==
    CASE t = "aapl" -> "AAPL"
      [] t = "AAPL" -> "AAPL"
      [] t = "msft" -> "MSFT"
      [] t = "MSFT" -> "MSFT"
      [] OTHER -> t

\* the first k elements of a sequence: s[:k] and DataFrame.head(k)
Take(s, k) == SubSeq(s, 1, IF Len(s) < k THEN Len(s) ELSE k)

\* f"{x:.2f}": x in hundredths, rounded to nearest, a tie going to the even digit
Fmt2(x) ==
    LET q == (x.n * 100) \div x.d
        r == (x.n * 100) % x.d
    IN  IF 2 * r > x.d \/ (2 * r = x.d /\ q % 2 = 1) THEN q + 1 ELSE q

\* the records get_stock_data can hand to update_recent_list: name as a
\* sequence of characters, price, forward P/E and consensus growth as numbers
ShortName == <<"A", "p", "p", "l", "e">>
LongName == <<"M", "i", "c", "r", "o", "s", "o", "f", "t", " ",
              "C", "o", "r", "p", "o", "r", "a", "t", "i", "o", "n", " ", "X">>
SampleA == [name |-> ShortName, price |-> Rat(1201, 8), pe_fwd |-> Rat(25, 1),
            g_consensus |-> Rat(10, 1)]
SampleB == [name |-> ShortName, price |-> Rat(99, 1), pe_fwd |-> Rat(0, 1),
            g_consensus |-> Rat(10, 1)]
SampleC == [name |-> LongName, price |-> Rat(400, 1), pe_fwd |-> Rat(30, 1),
            g_consensus |-> Rat(0, 1)]

\* the (ticker, data) arguments the calls are drawn from
RecentCalls ==
    { <<"aapl", SampleA>>, <<"AAPL", SampleB>>, <<"msft", SampleC>>, <<"MSFT", SampleC>> }

\* new_entry, lines 198-204, as the row pd.DataFrame([new_entry]) holds once it
\* is concatenated with the session frame: the frame's own columns
\* ("代码" and the four others of line 23) are not keys of new_entry, so the
\* row is NaN there; code stands for "代码", codeTicker for "代码 Ticker"
NewEntry(t, d) ==
    [ code       |-> NaN,
      codeTicker |-> Upper(t),
      company    |-> IF Len(d.name) > NameCut
                     THEN Take(d.name, NameCut) \o <<".", ".", ".">>
                     ELSE d.name,
      price      |-> <<"$", Fmt2(d.price)>>,
      fwdPE      |-> IF Truthy(d.pe_fwd) THEN <<Fmt2(d.pe_fwd), "x">> ELSE <<"N/A">>,
      fwdPEG     |-> IF Truthy(d.pe_fwd) /\ Truthy(d.g_consensus)
                     THEN <<Fmt2(RDiv(d.pe_fwd, d.g_consensus))>>
                     ELSE <<"N/A">> ]

\* recent_searches[recent_searches['代码'] != ticker.upper()], lines 209-211:
\* the rows whose "代码" cell differs from the upper-cased ticker (NaN differs
\* from every string)
FilterOut(rows, t) ==
    LET Keep(r) == r.code # Upper(t) IN SelectSeq(rows, Keep)

\* pd.concat([new_df_entry, filtered], ignore_index=True), lines 213-215
ConcatBadOrder(new, rows) == rows \o <<new>>
Concat(new, rows) == <<new>> \o rows

\* .head(10), line 216
TailRows(rows) == SubSeq(rows, IF Len(rows) > RecentCap THEN Len(rows) - RecentCap + 1 ELSE 1,
                         Len(rows))
HeadRows(rows) == Take(rows, RecentCap)

\* the frame update_recent_list leaves in the session state
UpdatedRecent(rows, t, d) == HeadRows(Concat(NewEntry(t, d), FilterOut(rows, t)))

NoCall == [ticker |-> "", data |-> <<>>, before |-> 0, made |-> FALSE]

----------------------------------------------------------------------------
(* What the two providers answer for one ticker.                           *)

\* a key of yf_info: absent, or present with a number
Absent == [has |-> FALSE, v |-> Rat(0, 1)]
Present(x) == [has |-> TRUE, v |-> x]
\* dict.get(key, default)
Get(field, default) == IF field.has THEN field.v ELSE default

\* largest EPS figure (trailing, forward, analyst-estimated) the inputs draw
MaxEps == 4
EpsValues == { RInt(i) : i \in -1..MaxEps }
EpsFields == {Absent} \cup { Present(e) : e \in EpsValues }

\* currentPrice and regularMarketPrice
PriceFields == { <<Absent, Absent>>, <<Present(RInt(100)), Absent>>,
                 <<Absent, Present(RInt(90))>> }
PEValues == { RInt(-10), RInt(0), RInt(20) }
\* earningsQuarterlyGrowth, a fraction
QGrowthFields == { Absent, Present(Rat(0, 1)), Present(Rat(15, 100)), Present(Rat(-80, 100)),
                   Present(Rat(3, 1)) }
TargetValues == { RInt(0), RInt(120) }

\* yf_stock.history(period="5y")['Close']: the number of daily rows and the
\* last close of each quarter
HistEmpty == [points |-> 0, quarterly |-> <<>>]
HistFive == [points |-> 1258,
             quarterly |-> <<RInt(20), RInt(50), RInt(80), RInt(100), RInt(1200)>>]
HistSamples == { HistEmpty, HistFive }

\* the analyst-estimates request of lines 125-135: it raises (network, timeout,
\* malformed JSON), answers something that is no non-empty list, or answers a
\* list whose first element may hold estimatedEpsAvg
FmpFailed == [list |-> FALSE, est |-> Absent]
FmpAnswers == {FmpFailed} \cup
              { [list |-> TRUE, est |-> f] : f \in {Absent} \cup { Present(RInt(i)) : i \in 0..MaxEps } }

RawInputs ==
    [ price                   : PriceFields,
      trailingEps             : EpsFields,
      forwardEps              : EpsFields,
      trailingPE              : { RInt(0), RInt(20) },
      forwardPE               : PEValues,
      earningsQuarterlyGrowth : QGrowthFields,
      targetMeanPrice         : TargetValues,
      hist                    : HistSamples,
      fmp                     : FmpAnswers ]

----------------------------------------------------------------------------
(* get_stock_data, lines 36-194.                                           *)

\* an optional float: None, or a number
None == [some |-> FALSE, v |-> Rat(0, 1)]
Some(x) == [some |-> TRUE, v |-> x]

\* the default growth of line 149 and the clamp range of line 152
DefaultGrowth == 10
GrowthFloor == -50
GrowthCeil == 200
\* the magnitude beyond which step 1 is distrusted, line 124
Implausible == 100
\* the plausible window of a synthesized P/E, line 105
PeWindowLow == 5
PeWindowHigh == 200

\* ((new - base) / base) * 100, lines 121 and 133
GrowthPct(new, base) == RMul(RDiv(RSub(new, base), base), RInt(100))

\* lines 96-111: quarterly closes scaled to a P/E, kept when inside the window
HistPeClosedWindow(hist, price, pe_ttm) ==
    LET InWindow(x) == RLe(RInt(PeWindowLow), x) /\ RLe(x, RInt(PeWindowHigh))
    IN  IF hist.points > 0 /\ Truthy(pe_ttm) /\ RLt(RInt(0), pe_ttm) /\ RLt(RInt(0), price)
        THEN SelectSeq([i \in DOMAIN hist.quarterly |->
                           RMul(RDiv(hist.quarterly[i], price), pe_ttm)], InWindow)
        ELSE <<>>
HistPe(hist, price, pe_ttm) ==
    LET InWindow(x) == RLt(RInt(PeWindowLow), x) /\ RLt(x, RInt(PeWindowHigh))
    IN  IF hist.points > 0 /\ Truthy(pe_ttm) /\ RLt(RInt(0), pe_ttm) /\ RLt(RInt(0), price)
        THEN SelectSeq([i \in DOMAIN hist.quarterly |->
                           RMul(RDiv(hist.quarterly[i], price), pe_ttm)], InWindow)
        ELSE <<>>

\* lines 117-121, step 1
GrowthStep1Skipped(eps_fwd, eps_ttm) == None
GrowthStep1(eps_fwd, eps_ttm) ==
    IF RLt(RInt(0), eps_fwd) /\ RLt(RInt(0), eps_ttm)
    THEN Some(GrowthPct(eps_fwd, eps_ttm))
    ELSE None

\* line 124: whether the analyst-estimates request is made at all
Step2AlwaysTried(g) == TRUE
Step2Tried(g) == ~g.some \/ RLt(RInt(Implausible), RAbs(g.v))

\* lines 124-135, step 2: growth_rate is reassigned only inside the innermost if
GrowthStep2(g, fmp, eps_ttm) ==
    IF Step2Tried(g)
    THEN LET est_eps == Get(fmp.est, RInt(0))
         IN  IF fmp.list /\ Truthy(est_eps) /\ RLt(RInt(0), est_eps) /\ RLt(RInt(0), eps_ttm)
             THEN Some(GrowthPct(est_eps, eps_ttm))
             ELSE g
    ELSE g

\* lines 138-145, step 3
GrowthStep3(g, quarterly) ==
    IF ~g.some /\ quarterly.has /\ Truthy(quarterly.v)
    THEN Some(RMul(quarterly.v, RInt(100)))
    ELSE g

\* lines 148-149
GrowthDefaulted(g) == IF g.some THEN g.v ELSE RInt(DefaultGrowth)

\* line 152
NoClamp(x) == x
ClampGrowth(x) == PyMax(RInt(GrowthFloor), PyMin(x, RInt(GrowthCeil)))

\* lines 116-154
ConsensusGrowth(eps_fwd, eps_ttm, fmp, quarterly) ==
    ClampGrowth(GrowthDefaulted(
        GrowthStep3(GrowthStep2(GrowthStep1(eps_fwd, eps_ttm), fmp, eps_ttm), quarterly)))

\* line 47: yf_info.get('currentPrice', yf_info.get('regularMarketPrice', 0))
NormalizedPrice(currentPrice, regularMarketPrice) ==
    Get(currentPrice, Get(regularMarketPrice, RInt(0)))

\* the dictionary get_stock_data returns
GetStockData(info) ==
    LET price   == NormalizedPrice(info.price[1], info.price[2])
        eps_ttm == Get(info.trailingEps, RInt(0))
        eps_fwd == Get(info.forwardEps, RInt(0))
    IN  [ returned       |-> TRUE,
          price          |-> price,
          eps_ttm        |-> eps_ttm,
          eps_fwd        |-> eps_fwd,
          pe_ttm         |-> info.trailingPE,
          pe_fwd         |-> info.forwardPE,
          hist_price     |-> info.hist,
          hist_pe        |-> HistPe(info.hist, price, info.trailingPE),
          g_consensus    |-> ConsensusGrowth(eps_fwd, eps_ttm, info.fmp, info.earningsQuarterlyGrowth),
          analyst_target |-> [mean |-> info.targetMeanPrice] ]

NoData == [returned |-> FALSE]
NoRaw == [asked |-> FALSE]

----------------------------------------------------------------------------
(* The page a search renders, lines 240-1047.                              *)

\* how a script run ends
Idle == [kind |-> "idle", error |-> "", at |-> ""]
Running == [kind |-> "running", error |-> "", at |-> ""]
Completed == [kind |-> "completed", error |-> "", at |-> ""]
\* st.stop() of line 250: StopException is no Exception, so line 1043 lets it pass
Stopped == [kind |-> "stopped", error |-> "", at |-> ""]
\* the handler of lines 1043-1047: exception e, raised in section sec
Excepted(e, sec) == [kind |-> "exception", error |-> e, at |-> sec]
Warned == [kind |-> "warning", error |-> "", at |-> ""]
Informed == [kind |-> "info", error |-> "", at |-> ""]

\* the fallback P/E of line 542 and the floor of the three P/E inputs, lines 569-585
FallbackPe == 20
PeInputMin == 1
\* the growth above which a halved forward EPS is rebuilt, line 303
AdjustGrowthAbove == -30

\* round(x, 1): x in tenths, rounded to nearest, a tie going to the even digit
Round1(x) ==
    LET q == (x.n * 10) \div x.d
        r == (x.n * 10) % x.d
    IN  Rat(IF 2 * r > x.d \/ (2 * r = x.d /\ q % 2 = 1) THEN q + 1 ELSE q, 10)

\* line 248
NeverStops(d) == FALSE
StopsOnPrice(d) == REq(d.price, RInt(0))

\* lines 301-305
FwdEpsDisplay(d) ==
    IF /\ Truthy(d.eps_fwd) /\ Truthy(d.eps_ttm)
       /\ RLt(d.eps_fwd, RMul(d.eps_ttm, Rat(5, 10)))
       /\ Truthy(d.g_consensus) /\ RLt(RInt(AdjustGrowthAbove), d.g_consensus)
    THEN RMul(d.eps_ttm, RAdd(RInt(1), RDiv(d.g_consensus, RInt(100))))
    ELSE d.eps_fwd

\* line 592: the branch that assigns price_low, price_mid and price_high
PeBandApplicable(d) == Truthy(FwdEpsDisplay(d)) /\ RLt(RInt(0), FwdEpsDisplay(d))

\* lines 541-546 and 565-589: with no historical P/E the three inputs default to
\* 0.7, 1 and 1.3 times (forward P/E or 20), and st.number_input refuses a
\* default below its min_value; with a historical P/E the defaults are
\* max(5, ..), the mean of values above 5, and mean + std, none below 1
PeInputsRaise(d) ==
    /\ d.hist_pe = <<>>
    /\ LET pe_mean == IF Truthy(d.pe_fwd) THEN d.pe_fwd ELSE RInt(FallbackPe)
       IN  \E k \in {Rat(7, 10), Rat(1, 1), Rat(13, 10)} :
               RLt(Round1(RMul(pe_mean, k)), RInt(PeInputMin))

\* lines 718-723: eps_y5 / eps_y0, the base raised to the power 1/5
Method3Base(d) ==
    LET f == RAdd(RInt(1), RDiv(d.g_consensus, RInt(100)))
    IN  RDiv(RMul(d.eps_fwd, RMul(RMul(f, f), RMul(f, f))), d.eps_ttm)

\* line 723: a negative float to the power 1/5 is a complex number in Python 3,
\* and min(complex, 100) raises TypeError
Method3Raises(d) ==
    /\ Truthy(d.eps_ttm) /\ Truthy(d.eps_fwd) /\ RLt(RInt(0), d.eps_ttm)
    /\ RLt(Method3Base(d), RInt(0))

\* lines 838 and 852: price_mid is read, and it is bound only by line 594
AnalystShown(d) == RLt(RInt(0), d.analyst_target.mean)
PriceMidUnbound(d) == AnalystShown(d) /\ ~PeBandApplicable(d)

\* the sections of the page after the price check, in the order of the script
PageSections ==
    << "metrics", "pollution", "fwd_eps", "financials", "analyst_summary",
       "valuation_intro", "pe_inputs", "pe_band", "growth", "recommendation",
       "peg", "analyst_target", "charts" >>

\* the exception a section raises on d, "" when it runs to its end
SectionError(sec, d) ==
    CASE sec = "analyst_summary" /\ AnalystShown(d) /\ REq(d.price, RInt(0)) -> "ZeroDivisionError"
      [] sec = "pe_inputs" /\ PeInputsRaise(d) -> "StreamlitValueBelowMinError"
      [] sec = "pe_band" /\ PeBandApplicable(d) /\ REq(d.price, RInt(0)) -> "ZeroDivisionError"
      [] sec = "growth" /\ Method3Raises(d) -> "TypeError"
      [] sec = "analyst_target" /\ AnalystShown(d) /\ REq(d.price, RInt(0)) -> "ZeroDivisionError"
      [] sec = "analyst_target" /\ PriceMidUnbound(d) -> "NameError"
      [] OTHER -> ""

\* what a section that ran to its end showed
SectionShown(sec, d) ==
    CASE sec = "analyst_summary" -> IF AnalystShown(d) THEN "analyst_summary" ELSE "analyst_summary_skipped"
      [] sec = "pe_band" -> IF PeBandApplicable(d) THEN "pe_band" ELSE "pe_band_na"
      [] sec = "analyst_target" -> IF AnalystShown(d) THEN "analyst_target" ELSE "analyst_target_none"
      [] OTHER -> sec

\* the sections run in order until one raises
RECURSIVE RunSections(_, _, _)
RunSections(secs, d, done) ==
    IF secs = <<>> THEN [steps |-> done, outcome |-> Completed]
    ELSE IF SectionError(Head(secs), d) # ""
         THEN [steps |-> done, outcome |-> Excepted(SectionError(Head(secs), d), Head(secs))]
         ELSE RunSections(Tail(secs), d, Append(done, SectionShown(Head(secs), d)))

\* lines 246-1047 on the dictionary d
Page(d) ==
    IF StopsOnPrice(d)
    THEN [steps |-> <<"header", "price_error">>, outcome |-> Stopped]
    ELSE RunSections(PageSections, d, <<"header">>)

\* the tickers typed into the sidebar, as typed
TypedTickers == {"aapl", "MSFT"}

\* no calculation is being followed
NoCalc == [fn |-> "none", done |-> FALSE]

\* lines 21-32: the session state of a fresh session
Init ==
    /\ recent_searches = <<>>
    /\ lastCall = NoCall
    /\ ticker = ""
    /\ raw = NoRaw
    /\ data = NoData
    /\ steps = <<>>
    /\ outcome = Idle
    /\ calc = NoCalc

\* update_recent_list(ticker, data), lines 196-216
update_recent_list(t, d) ==
    /\ recent_searches' = UpdatedRecent(recent_searches, t, d)
    /\ lastCall' = [ticker |-> t, data |-> d, before |-> Len(recent_searches), made |-> TRUE]
    /\ UNCHANGED <<ticker, raw, data, steps, outcome, calc>>

\* lines 223-224 and 240-241: a ticker is typed and the button pressed; the
\* script starts over with the button set
PressSearch(t) ==
    /\ outcome.kind # "running"
    /\ ticker' = Upper(t)
    /\ raw' = NoRaw
    /\ data' = NoData
    /\ steps' = <<>>
    /\ outcome' = Running
    /\ UNCHANGED <<recent_searches, lastCall, calc>>

\* line 243: get_stock_data returns
FetchData ==
    /\ outcome.kind = "running"
    /\ ~data.returned
    /\ \E r \in RawInputs :
           /\ raw' = r
           /\ data' = GetStockData(r)
    /\ UNCHANGED <<recent_searches, lastCall, ticker, steps, outcome, calc>>

\* line 243: get_stock_data raises (yf_stock.info fails), caught at line 1043
FetchRaises ==
    /\ outcome.kind = "running"
    /\ ~data.returned
    /\ outcome' = Excepted("upstream", "get_stock_data")
    /\ UNCHANGED <<recent_searches, lastCall, ticker, raw, data, steps, calc>>

\* lines 246-1047: the page is rendered from the dictionary; the session's
\* recent_searches is not written (update_recent_list has no caller)
RenderPage ==
    /\ outcome.kind = "running"
    /\ data.returned
    /\ steps' = Page(data).steps
    /\ outcome' = Page(data).outcome
    /\ UNCHANGED <<recent_searches, lastCall, ticker, raw, data, calc>>

\* lines 1049-1050: the button pressed with no ticker typed
PressSearchEmpty ==
    /\ outcome.kind # "running"
    /\ ticker' = ""
    /\ raw' = NoRaw
    /\ data' = NoData
    /\ steps' = <<>>
    /\ outcome' = Warned
    /\ UNCHANGED <<recent_searches, lastCall, calc>>

\* lines 1051-1052: the script runs with the button not pressed
Rerun ==
    /\ outcome.kind # "running"
    /\ raw' = NoRaw
    /\ data' = NoData
    /\ steps' = <<>>
    /\ outcome' = Informed
    /\ UNCHANGED <<recent_searches, lastCall, ticker, calc>>

Next ==
    \/ \E t \in TypedTickers : PressSearch(t)
    \/ FetchData
    \/ FetchRaises
    \/ RenderPage
    \/ PressSearchEmpty
    \/ Rerun

Spec == Init /\ [][Next]_vars

NextRecent == \E c \in RecentCalls : update_recent_list(c[1], c[2])

SpecRecent == Init /\ [][NextRecent]_vars
----------------------------------------------------------------------------
(* The historical P/E series taken alone, lines 96-111: SpecHistPe draws a *)
(* price history, a price and a trailing P/E, and applies the calculation. *)

\* quarter-end closes the histories are made of; with price 100 and trailing
\* P/E 20 they scale to 4, 5, 6, 20 and 200
QuarterCloses == {RInt(20), RInt(25), RInt(30), RInt(100), RInt(1000)}
\* the longest history drawn, in quarters
MaxQuarters == 3
SeqsUpTo(S, k) == UNION {[1..j -> S] : j \in 0..k}
\* a history of 63 trading days a quarter
HistOf(q) == [points |-> 63 * Len(q), quarterly |-> q]
HistPeInputs ==
    [hist   : {HistOf(q) : q \in SeqsUpTo(QuarterCloses, MaxQuarters)},
     price  : {RInt(-1), RInt(0), RInt(50), RInt(100)},
     pe_ttm : {RInt(-5), RInt(0), RInt(20)}]

\* the other variables stay as the session starts them
SessionIdle ==
    /\ recent_searches = <<>>
    /\ lastCall = NoCall
    /\ ticker = ""
    /\ raw = NoRaw
    /\ data = NoData
    /\ steps = <<>>
    /\ outcome = Idle
Drawn(f, i) == [fn |-> f, done |-> FALSE, in |-> i, out |-> <<>>]
Applied(c, o) == [c EXCEPT !.done = TRUE, !.out = o]
Pending(f) == calc.fn = f /\ ~calc.done
Done(f) == calc.fn = f /\ calc.done

InitHistPe == SessionIdle /\ calc \in {Drawn("hist_pe", i) : i \in HistPeInputs}

\* lines 96-111
ApplyHistPe ==
    /\ Pending("hist_pe")
    /\ calc' = Applied(calc, HistPe(calc.in.hist, calc.in.price, calc.in.pe_ttm))
    /\ UNCHANGED <<recent_searches, lastCall, ticker, raw, data, steps, outcome>>

SpecHistPe == InitHistPe /\ [][ApplyHistPe]_vars
----------------------------------------------------------------------------
(* Roots of rationals.  x ** (1/k) of the code is a float; here it is the   *)
(* largest multiple of 1/10 whose k-th power does not exceed x, which is    *)
(* the root itself whenever the root is a multiple of 1/10.  The search     *)
(* stops at top/10: every use is followed by a min() that cuts the result   *)
(* at or below that value.                                                  *)

RECURSIVE IntPow(_, _)
IntPow(b, k) == IF k = 0 THEN 1 ELSE b * IntPow(b, k - 1)
RPow(x, k) == Rat(IntPow(x.n, k), IntPow(x.d, k))
RootFloor(x, k, top) ==
    LET fits(m) == IntPow(m, k) * x.d <= x.n * IntPow(10, k)
    IN  Rat(CHOOSE m \in 0..top : fits(m) /\ (m = top \/ ~fits(m + 1)), 10)

----------------------------------------------------------------------------
(* The historical growth default and the weighted average, lines 638-681:  *)
(* SpecBlend draws a price history, a consensus growth and the state of    *)
(* the two widgets, and applies the calculation.                           *)

\* line 641 and line 658
HistGrowthDefault == 10
\* line 647: a year of trading days
YearPoints == 252
\* line 656
CagrFloor == -50
CagrCeil == 200
\* line 679: the slider runs from 0.0 to 1.0 in steps of 0.05
WeightSteps == 20

\* what matters of data['hist_price'] at lines 643-655: the number of closes,
\* the first and the last close, and the days between their dates
Spans ==
    [points : {0, 251, 252},
     first  : {RInt(0), RInt(1), RInt(16), RInt(40), RInt(81)},
     last   : {RInt(0), RInt(1), RInt(16), RInt(40), RInt(81)},
     days   : {0, 1461}]
\* line 652: (end_date - start_date).days / 365.25
Years(span) == Rat(span.days * 4, 1461)
\* line 655, for a whole number of years
PriceCagr(span) ==
    LET root == RootFloor(RDiv(span.last, span.first), Years(span).n, 30)
    IN  RMul(RSub(root, RInt(1)), RInt(100))
\* lines 641-658 without the length check of line 647
GHDefaultAnyLength(span) ==
    IF span.points > 0
    THEN IF /\ RLt(RInt(0), span.first) /\ RLt(RInt(0), span.last)
            /\ RLt(RInt(0), Years(span))
         THEN PyMax(RInt(CagrFloor), PyMin(PriceCagr(span), RInt(CagrCeil)))
         ELSE RInt(HistGrowthDefault)
    ELSE RInt(HistGrowthDefault)
\* lines 641-658: g_h_default
GHDefault(span) ==
    IF span.points > 0
    THEN IF span.points >= YearPoints
         THEN IF /\ RLt(RInt(0), span.first) /\ RLt(RInt(0), span.last)
                 /\ RLt(RInt(0), Years(span))
              THEN PyMax(RInt(CagrFloor), PyMin(PriceCagr(span), RInt(CagrCeil)))
              ELSE RInt(HistGrowthDefault)
         ELSE RInt(HistGrowthDefault)
    ELSE RInt(HistGrowthDefault)

\* a widget the user has not touched, and one set to x
Untouched == [set |-> FALSE, v |-> Rat(0, 1)]
SetTo(x) == [set |-> TRUE, v |-> x]
\* st.number_input(value = default, ...): the value the user entered, or the
\* default
NumberInput(default, user) == IF user.set THEN user.v ELSE default
\* line 679: the positions of the slider
SliderWeights == {Rat(k, WeightSteps) : k \in 0..WeightSteps}
\* line 681 with the two weights exchanged
BlendSwapped(g_c, g_h_1, weight_1) ==
    RAdd(RMul(g_c, RSub(RInt(1), weight_1)), RMul(g_h_1, weight_1))
\* line 681: g_method1
Blend(g_c, g_h_1, weight_1) ==
    RAdd(RMul(g_c, weight_1), RMul(g_h_1, RSub(RInt(1), weight_1)))

BlendInputs ==
    [span     : Spans,
     g_c      : {RInt(-50), RInt(0), RInt(10), RInt(200)},
     g_h_user : {Untouched, SetTo(RInt(-80)), SetTo(RInt(500))},
     weight_1 : SliderWeights]
\* lines 638-681
Method1(i) ==
    LET g_h_default == GHDefault(i.span)
        g_h_1 == NumberInput(g_h_default, i.g_h_user)
    IN  [g_h_default |-> g_h_default, g_h_1 |-> g_h_1,
         g_method1 |-> Blend(i.g_c, g_h_1, i.weight_1)]

InitBlend == SessionIdle /\ calc \in {Drawn("blend", i) : i \in BlendInputs}

ApplyBlend ==
    /\ Pending("blend")
    /\ calc' = Applied(calc, Method1(calc.in))
    /\ UNCHANGED <<recent_searches, lastCall, ticker, raw, data, steps, outcome>>

SpecBlend == InitBlend /\ [][ApplyBlend]_vars
----------------------------------------------------------------------------
(* The P/E band, lines 300-305 and 535-631: SpecBand draws the fields of   *)
(* data the block reads and the state of its three inputs, and applies it. *)

\* float('nan'): what pandas' std() gives for a single observation
RNaN == [n |-> 0, d |-> 0]
IsNaN(x) == x.d = 0
\* a <= b of the code: False when either side is nan
PyLe(a, b) == ~IsNaN(a) /\ ~IsNaN(b) /\ RLe(a, b)

RECURSIVE SumSeq(_)
SumSeq(s) == IF s = <<>> THEN RInt(0) ELSE RAdd(Head(s), SumSeq(Tail(s)))
\* Series.mean()
Mean(s) == RDiv(SumSeq(s), RInt(Len(s)))
\* Series.std(): the sample standard deviation (ddof = 1), nan for one value;
\* the square root is taken to the tenth the inputs are rounded to (line 570)
Std(s) ==
    IF Len(s) < 2 THEN RNaN
    ELSE LET m == Mean(s)
             sq == [j \in DOMAIN s |-> RMul(RSub(s[j], m), RSub(s[j], m))]
         IN  RootFloor(RDiv(SumSeq(sq), RInt(Len(s) - 1)), 2, 2000)

\* line 538: the floor of the recommended low P/E
PeLowFloor == 5
\* lines 535-546: pe_low_rec, pe_mid_rec, pe_high_rec and the branch taken;
\* max(5, nan) is 5 and mean + nan is nan
PeRec(hist_pe, pe_fwd) ==
    IF hist_pe # <<>>
    THEN LET pe_mean == Mean(hist_pe)
             pe_std == Std(hist_pe)
         IN  [path |-> "historical", mean |-> pe_mean, std |-> pe_std,
              low  |-> IF IsNaN(pe_std) THEN RInt(PeLowFloor)
                       ELSE PyMax(RInt(PeLowFloor), RSub(pe_mean, pe_std)),
              mid  |-> pe_mean,
              high |-> IF IsNaN(pe_std) THEN RNaN ELSE RAdd(pe_mean, pe_std)]
    ELSE LET pe_mean == IF Truthy(pe_fwd) THEN pe_fwd ELSE RInt(FallbackPe)
         IN  [path |-> "fallback", mean |-> pe_mean, std |-> RMul(pe_mean, Rat(3, 10)),
              low  |-> RMul(pe_mean, Rat(7, 10)),
              mid  |-> pe_mean,
              high |-> RMul(pe_mean, Rat(13, 10))]
\* float(round(x, 1)), lines 570, 578 and 586
PeDefault(x) == IF IsNaN(x) THEN RNaN ELSE Round1(x)
\* pe * fwd_eps_display, lines 593-595
BandPrice(pe, eps) == IF IsNaN(pe) THEN RNaN ELSE RMul(pe, eps)
\* lines 608-615
Verdict(price, price_low, price_mid, price_high) ==
    IF RLt(price, price_low) THEN "significantly undervalued"
    ELSE IF RLt(price, price_mid) THEN "moderately undervalued"
    ELSE IF RLt(price, price_high) THEN "fair value range"
    ELSE "overvalued"

\* historical P/E series as get_stock_data leaves them (values in (5, 200))
HistPeSamples ==
    { <<>>,
      <<RInt(20)>>,
      <<RInt(14), RInt(22)>>,
      <<RInt(14), RInt(18), RInt(22)>>,
      <<RInt(14), RInt(14), RInt(18), RInt(22), RInt(22)>>,
      <<RInt(6), RInt(6), RInt(6), RInt(150)>> }
\* values the user can give a P/E input (min_value = 1.0)
PeUserValues == {Untouched, SetTo(RInt(10)), SetTo(RInt(30))}
BandInputs ==
    [data : [price       : {RInt(60), RInt(90), RInt(110)},
             eps_fwd     : {RInt(-1), RInt(0), RInt(2), RInt(5)},
             eps_ttm     : {RInt(0), RInt(5)},
             g_consensus : {RInt(-50), RInt(10)},
             hist_pe     : HistPeSamples,
             pe_fwd      : {RInt(-10), RInt(0), RInt(20)}],
     pe_low_user  : PeUserValues,
     pe_mid_user  : PeUserValues,
     pe_high_user : PeUserValues]

NoBand(rec, e) ==
    [path |-> rec.path, error |-> e, applicable |-> FALSE,
     price_low |-> RNaN, price_mid |-> RNaN, price_high |-> RNaN, verdict |-> "none"]
\* lines 300-305 and 535-631
PeBand(i) ==
    LET d == i.data
        rec == PeRec(d.hist_pe, d.pe_fwd)
        pe_low == NumberInput(PeDefault(rec.low), i.pe_low_user)
        pe_mid == NumberInput(PeDefault(rec.mid), i.pe_mid_user)
        pe_high == NumberInput(PeDefault(rec.high), i.pe_high_user)
        eps == FwdEpsDisplay(d)
        price_low == BandPrice(pe_low, eps)
        price_mid == BandPrice(pe_mid, eps)
        price_high == BandPrice(pe_high, eps)
    IN  IF PeInputsRaise(d) THEN NoBand(rec, "StreamlitValueBelowMinError")
        ELSE IF ~PeBandApplicable(d) THEN NoBand(rec, "")
        ELSE [path |-> rec.path, error |-> "", applicable |-> TRUE,
              price_low |-> price_low, price_mid |-> price_mid, price_high |-> price_high,
              verdict |-> Verdict(d.price, price_low, price_mid, price_high)]

InitBand == SessionIdle /\ calc \in {Drawn("band", i) : i \in BandInputs}

ApplyBand ==
    /\ Pending("band")
    /\ calc' = Applied(calc, PeBand(calc.in))
    /\ UNCHANGED <<recent_searches, lastCall, ticker, raw, data, steps, outcome>>

SpecBand == InitBand /\ [][ApplyBand]_vars
----------------------------------------------------------------------------
(* The growth methods, the recommendation and the PEG ratio, lines 638-828: *)
(* SpecPeg draws the fields of data the section reads and the state of the *)
(* two widgets of method 1, and applies it.                                *)

\* line 698: the payout assumed when none is reported, 0.3, in tenths
AssumedPayoutTenths == 3
\* lines 699 and 723: the cap of methods 2 and 3
MethodGrowthCap == 100
\* line 743: a large cap is above 200e9; market caps are counted in billions
LargeCapBillions == 200
\* line 744 and line 745: thresholds on the historical growth
MatureBelow == 15
HighGrowthAbove == 20

\* lines 697-704: g_method2, or None
Method2(d) ==
    IF Truthy(d.roe) /\ RLt(RInt(0), d.roe)
    THEN LET actual_payout == IF Truthy(d.payout_ratio) THEN d.payout_ratio
                              ELSE Rat(AssumedPayoutTenths, 10)
             g == RMul(RMul(d.roe, RSub(RInt(1), actual_payout)), RInt(100))
         IN  Some(PyMax(RInt(0), PyMin(g, RInt(MethodGrowthCap))))
    ELSE None
\* lines 718-728: g_method3, or None; the fifth root is cut at 2.0 by the
\* min(.., 100) that follows
Method3(d) ==
    IF Truthy(d.eps_ttm) /\ Truthy(d.eps_fwd) /\ RLt(RInt(0), d.eps_ttm)
    THEN LET g == RMul(RSub(RootFloor(Method3Base(d), 5, 20), RInt(1)), RInt(100))
         IN  Some(PyMax(RInt(0), PyMin(g, RInt(MethodGrowthCap))))
    ELSE None
\* line 743
IsLargeCap(d) == RLt(RInt(LargeCapBillions), d.market_cap)
\* line 744
IsMature(d, g_h_default) ==
    /\ Truthy(d.roe) /\ RLt(RInt(0), d.roe) /\ RLt(d.roe, Rat(25, 100))
    /\ RLt(g_h_default, RInt(MatureBelow))
\* line 745
IsHighGrowth(d, g_h_default) ==
    \/ RLt(RInt(HighGrowthAbove), g_h_default)
    \/ /\ Truthy(d.eps_fwd) /\ Truthy(d.eps_ttm)
       /\ RLt(RMul(d.eps_ttm, Rat(115, 100)), d.eps_fwd)
\* lines 750-761: recommended_method and recommended_growth
Recommend(d, g_h_default, g_method1, g_method2, g_method3) ==
    IF g_method3.some /\ IsHighGrowth(d, g_h_default)
    THEN [method |-> 3, growth |-> g_method3.v]
    ELSE IF g_method2.some /\ IsMature(d, g_h_default) /\ IsLargeCap(d)
    THEN [method |-> 2, growth |-> g_method2.v]
    ELSE [method |-> 1, growth |-> g_method1]

\* line 797 without the test on the forward P/E
PegApplicableAnyPe(g_blended, pe_fwd) == RLt(RInt(0), g_blended)
\* line 797
PegApplicable(g_blended, pe_fwd) ==
    RLt(RInt(0), g_blended) /\ Truthy(pe_fwd) /\ RLt(RInt(0), pe_fwd)
\* lines 817-826 with the last boundary strict
PegVerdictStrict(forward_peg) ==
    IF RLt(forward_peg, Rat(5, 10)) THEN "extremely undervalued"
    ELSE IF RLt(forward_peg, Rat(8, 10)) THEN "undervalued"
    ELSE IF RLe(forward_peg, Rat(12, 10)) THEN "fair"
    ELSE IF RLt(forward_peg, RInt(2)) THEN "overvalued"
    ELSE "severely overvalued"
\* lines 817-826
PegVerdict(forward_peg) ==
    IF RLt(forward_peg, Rat(5, 10)) THEN "extremely undervalued"
    ELSE IF RLt(forward_peg, Rat(8, 10)) THEN "undervalued"
    ELSE IF RLe(forward_peg, Rat(12, 10)) THEN "fair"
    ELSE IF RLe(forward_peg, RInt(2)) THEN "overvalued"
    ELSE "severely overvalued"

PegSpans ==
    { [points |-> 0, first |-> RInt(0), last |-> RInt(0), days |-> 0],
      [points |-> 252, first |-> RInt(16), last |-> RInt(16), days |-> 1461],
      [points |-> 252, first |-> RInt(16), last |-> RInt(81), days |-> 1461] }
PegInputs ==
    [span     : PegSpans,
     g_h_user : {Untouched, SetTo(RInt(-80))},
     weight_1 : {Rat(0, 1), Rat(7, 10), Rat(1, 1)},
     data : [g_consensus  : {RInt(-50), RInt(0), RInt(25), RInt(100)},
             eps_ttm      : {RInt(0), RInt(1), RInt(2)},
             eps_fwd      : {RInt(-1), RInt(0), RInt(1), RInt(2)},
             roe          : {RInt(0), Rat(1, 10), Rat(3, 10)},
             payout_ratio : {RInt(0), Rat(1, 2), Rat(3, 2)},
             market_cap   : {RInt(50), RInt(300)},
             pe_fwd       : {RInt(-10), RInt(0), RInt(5), RInt(20)}]]

\* lines 638-828
GrowthAndPeg(i) ==
    LET d == i.data
        m1 == Method1([span |-> i.span, g_c |-> d.g_consensus,
                       g_h_user |-> i.g_h_user, weight_1 |-> i.weight_1])
        g_method2 == Method2(d)
    IN  IF Method3Raises(d)
        THEN [error |-> "TypeError", method |-> 0, g_blended |-> RNaN,
              forward_peg |-> None, peg_verdict |-> "none"]
        ELSE LET rec == Recommend(d, m1.g_h_default, m1.g_method1, g_method2, Method3(d))
                 g_blended == rec.growth
             IN  IF PegApplicable(g_blended, d.pe_fwd)
                 THEN LET forward_peg == RDiv(d.pe_fwd, g_blended)
                      IN  [error |-> "", method |-> rec.method, g_blended |-> g_blended,
                           forward_peg |-> Some(forward_peg),
                           peg_verdict |-> PegVerdict(forward_peg)]
                 ELSE [error |-> "", method |-> rec.method, g_blended |-> g_blended,
                       forward_peg |-> None, peg_verdict |-> "insufficient data"]

InitPeg == SessionIdle /\ calc \in {Drawn("peg", i) : i \in PegInputs}

ApplyPeg ==
    /\ Pending("peg")
    /\ calc' = Applied(calc, GrowthAndPeg(calc.in))
    /\ UNCHANGED <<recent_searches, lastCall, ticker, raw, data, steps, outcome>>

SpecPeg == InitPeg /\ [][ApplyPeg]_vars
----------------------------------------------------------------------------
(* The data-quality warning, lines 278-298: SpecPollution draws the two    *)
(* EPS figures and the two P/E figures, and applies the check.             *)

\* lines 279-298: st.error above a ratio of 1.5, st.warning above 1.2
PollutionFlag(d) ==
    IF Truthy(d.eps_fwd) /\ Truthy(d.eps_ttm) /\ RLt(RInt(0), d.eps_ttm)
    THEN LET eps_ratio == RDiv(d.eps_fwd, d.eps_ttm)
         IN  IF RLt(Rat(15, 10), eps_ratio) THEN "error"
             ELSE IF RLt(Rat(12, 10), eps_ratio) THEN "warning"
             ELSE "none"
    ELSE "none"

PollutionInputs ==
    [eps_fwd : EpsValues,
     eps_ttm : EpsValues,
     pe_ttm  : {RInt(0), RInt(20), RInt(150)},
     pe_fwd  : {RInt(0), RInt(20), RInt(60)}]

InitPollution == SessionIdle /\ calc \in {Drawn("pollution", i) : i \in PollutionInputs}

ApplyPollution ==
    /\ Pending("pollution")
    /\ calc' = Applied(calc, PollutionFlag(calc.in))
    /\ UNCHANGED <<recent_searches, lastCall, ticker, raw, data, steps, outcome>>

SpecPollution == InitPollution /\ [][ApplyPollution]_vars
----------------------------------------------------------------------------
(* The price of the dictionary, line 47: SpecPrice draws the two price     *)
(* fields of yf_info and applies the lookup.                               *)

\* Python's None as the value of a key that is present
PyNone == [n |-> 0, d |-> 1, none |-> TRUE]
IsNone(x) == "none" \in DOMAIN x
\* the largest price drawn
MaxPrice == 6
\* a key of yf_info: missing, present with None, or present with a number
PriceKeyStates == {Absent, Present(PyNone)} \cup {Present(RInt(p)) : p \in 0..MaxPrice}
PriceInputs == [currentPrice : PriceKeyStates, regularMarketPrice : PriceKeyStates]

InitPrice == SessionIdle /\ calc \in {Drawn("price", i) : i \in PriceInputs}

ApplyPrice ==
    /\ Pending("price")
    /\ calc' = Applied(calc, NormalizedPrice(calc.in.currentPrice, calc.in.regularMarketPrice))
    /\ UNCHANGED <<recent_searches, lastCall, ticker, raw, data, steps, outcome>>

SpecPrice == InitPrice /\ [][ApplyPrice]_vars
----------------------------------------------------------------------------
(* Properties of the recent-searches list, under SpecRecent.               *)

\* C1: after any sequence of update_recent_list calls, every ticker appears in
\* at most one entry of the list.
C1_OneEntryPerTicker ==
    \A i, j \in DOMAIN recent_searches :
        i # j => recent_searches[i].codeTicker # recent_searches[j].codeTicker

\* C2: right after update_recent_list(ticker, data) the first entry of the list
\* is the entry of that call: the upper-cased ticker with the call's price.
C2_NewestFirst ==
    lastCall.made =>
        /\ recent_searches # <<>>
        /\ Head(recent_searches).codeTicker = Upper(lastCall.ticker)
        /\ Head(recent_searches).price = <<"$", Fmt2(lastCall.data.price)>>

\* a call for a lower-case ticker on a full list that already held that ticker
C2_Witness ==
    /\ lastCall.made /\ lastCall.ticker = "aapl"
    /\ lastCall.before = RecentCap
    /\ recent_searches[2].codeTicker = "MSFT"
    /\ \E i \in 3..Len(recent_searches) : recent_searches[i].codeTicker = "AAPL"

\* C3: the list never holds more than 10 entries, and a call keeps the earlier
\* entries in order behind the new one, dropping from the end (the oldest).
C3_CappedDropsOldest ==
    [][ /\ Len(recent_searches') <= RecentCap
        /\ recent_searches' # <<>>
        /\ Tail(recent_searches') = Take(recent_searches, Len(recent_searches') - 1)
      ]_vars

\* an insertion into a list that already held 10 entries
C3_Witness ==
    /\ lastCall.made /\ lastCall.before = RecentCap
    /\ Len(recent_searches) = RecentCap
    /\ recent_searches[RecentCap].codeTicker # recent_searches[1].codeTicker

----------------------------------------------------------------------------
(* Properties of a search, under Spec.                                     *)

Finished == outcome.kind \in {"completed", "stopped", "exception"}
Shown(tag) == \E i \in DOMAIN steps : steps[i] = tag

\* C4: when a search for T completes with a non-zero price, T is the first entry
\* of the recent-searches list.
C4_SearchedTickerFirst ==
    outcome.kind = "completed" =>
        /\ recent_searches # <<>>
        /\ Head(recent_searches).codeTicker = ticker

\* C5: when the price of the searched ticker is 0 the run reports the failure
\* and stops; no section after the price check is executed.
C5_ZeroPriceStops ==
    (data.returned /\ REq(data.price, RInt(0)) /\ outcome.kind # "running") =>
        /\ outcome.kind = "stopped"
        /\ steps = <<"header", "price_error">>

\* a stopped run whose dictionary had everything but the price
C5_Witness ==
    /\ outcome.kind = "stopped"
    /\ data.returned /\ REq(data.price, RInt(0))
    /\ RLt(RInt(0), data.eps_fwd) /\ RLt(RInt(0), data.eps_ttm)
    /\ RLt(RInt(0), data.analyst_target.mean)
    /\ data.hist_price.points > 0

\* C6: with a non-zero price, a missing or non-positive forward EPS still lets
\* the run reach the PEG step, the analyst-target step and the charts, and the
\* run does not end in the exception handler. Stated for the runs that get past
\* the P/E inputs and the growth section, whose own failures are not C6's.
C6_MissingFwdEpsDegrades ==
    (data.returned /\ ~REq(data.price, RInt(0)) /\ RLe(data.eps_fwd, RInt(0)) /\ Finished
        /\ outcome.at \notin {"pe_inputs", "growth"}) =>
        /\ outcome.kind = "completed"
        /\ Shown("peg")
        /\ Shown("analyst_target") \/ Shown("analyst_target_none")
        /\ Shown("charts")

\* C7: no growth computation raises: a run never ends in the exception handler
\* because of the growth section.
C7_NoGrowthDomainError ==
    ~(outcome.kind = "exception" /\ outcome.at = "growth")

----------------------------------------------------------------------------
(* Properties of the consensus growth of get_stock_data, under Spec.       *)

\* the step-1 value (forwardEPS - trailingEPS) / trailingEPS * 100
Step1Value(d) == RDiv(RMul(RSub(d.eps_fwd, d.eps_ttm), RInt(100)), d.eps_ttm)
BothEpsPositive(d) == RLt(RInt(0), d.eps_fwd) /\ RLt(RInt(0), d.eps_ttm)
\* x brought into [-50, 200]
Within(x) == IF RLt(x, RInt(-50)) THEN RInt(-50) ELSE IF RLt(RInt(200), x) THEN RInt(200) ELSE x

\* C8: the consensus growth get_stock_data returns lies in [-50, 200].
C8_ConsensusClamped ==
    data.returned =>
        /\ RLe(RInt(-50), data.g_consensus)
        /\ RLe(data.g_consensus, RInt(200))

\* a step-1 value above 200 kept because the analyst request failed
C8_Witness ==
    /\ data.returned /\ BothEpsPositive(data)
    /\ RLt(RInt(200), Step1Value(data))
    /\ ~raw.fmp.list
    /\ REq(data.g_consensus, RInt(200))

\* C9: with both EPS figures positive and a step-1 value of magnitude at most
\* 100, the consensus growth is the step-1 value clamped, whatever the analyst
\* estimate and the quarterly growth are.
C9_Step1Wins ==
    (data.returned /\ BothEpsPositive(data)
        /\ RLe(RAbs(Step1Value(data)), RInt(100))) =>
        REq(data.g_consensus, Within(Step1Value(data)))

\* step 1 wins while both later sources hold a usable, different figure
C9_Witness ==
    /\ data.returned /\ BothEpsPositive(data)
    /\ RLt(Step1Value(data), RInt(-50))
    /\ raw.fmp.list /\ RLt(RInt(0), Get(raw.fmp.est, RInt(0)))
    /\ raw.earningsQuarterlyGrowth.has /\ Truthy(raw.earningsQuarterlyGrowth.v)
    /\ REq(data.g_consensus, RInt(-50))

\* the next applicable method after step 1: the analyst estimate, else the
\* quarterly growth times 100, else 10
EstUsable == raw.fmp.list /\ RLt(RInt(0), Get(raw.fmp.est, RInt(0))) /\ RLt(RInt(0), data.eps_ttm)
NextMethodValue ==
    IF EstUsable
    THEN RDiv(RMul(RSub(Get(raw.fmp.est, RInt(0)), data.eps_ttm), RInt(100)), data.eps_ttm)
    ELSE IF raw.earningsQuarterlyGrowth.has /\ Truthy(raw.earningsQuarterlyGrowth.v)
         THEN RMul(raw.earningsQuarterlyGrowth.v, RInt(100))
         ELSE RInt(10)

\* C10: when the step-1 value has magnitude above 100 the consensus growth
\* comes from the next applicable method, never from step 1.
C10_ImplausibleReplaced ==
    (data.returned /\ BothEpsPositive(data)
        /\ RLt(RInt(100), RAbs(Step1Value(data)))) =>
        REq(data.g_consensus, Within(NextMethodValue))
----------------------------------------------------------------------------
(* Properties of the historical P/E series, under SpecHistPe.              *)

\* C18: every value of the historical P/E series lies strictly between 5 and
\* 200, and the series is empty whenever the trailing P/E is absent or not
\* positive, the price is not positive, or the price history is empty.
C18_HistPeWindow ==
    Done("hist_pe") =>
        /\ \A i \in DOMAIN calc.out :
               RLt(RInt(5), calc.out[i]) /\ RLt(calc.out[i], RInt(200))
        /\ (\/ RLe(calc.in.pe_ttm, RInt(0))
            \/ RLe(calc.in.price, RInt(0))
            \/ calc.in.hist.quarterly = <<>>) => calc.out = <<>>
\* a history whose scaled values include the bounds 5 and 200 themselves and
\* a value inside, of which only the inside one is kept
C18_Witness ==
    /\ Done("hist_pe")
    /\ calc.in.price = RInt(100) /\ calc.in.pe_ttm = RInt(20)
    /\ calc.in.hist.quarterly = <<RInt(25), RInt(100), RInt(1000)>>
    /\ calc.out = <<RInt(20)>>
----------------------------------------------------------------------------
(* Properties of the weighted-average growth, under SpecBlend.             *)

\* C11: for every position w of the slider the weighted-average growth is
\* consensus * w + historical * (1 - w); at w = 0 it is the historical growth
\* and at w = 1 the consensus growth.
C11_BlendIsWeightedAverage ==
    Done("blend") =>
        LET c == calc.in.g_c
            h == calc.out.g_h_1
            g == calc.out.g_method1
        IN  \E k \in 0..20 :
                /\ calc.in.weight_1 = Rat(k, 20)
                /\ REq(RMul(RInt(20), g),
                       RAdd(RMul(RInt(k), c), RMul(RInt(20 - k), h)))
                /\ (k = 0 => g = h)
                /\ (k = 20 => g = c)
\* consensus 10 and a price that went from 16 to 81 in four years (50% a
\* year) blended at the slider's 0.7 give 22
C11_Witness ==
    /\ Done("blend")
    /\ calc.in.weight_1 = Rat(7, 10)
    /\ calc.in.g_c = RInt(10)
    /\ calc.out.g_h_1 = RInt(50)
    /\ calc.out.g_method1 = RInt(22)

\* C12: both inputs of the blend, the consensus growth and the historical
\* growth actually used (a value edited by the user included), lie in
\* [-50, 200] when the blend is computed, so the blended growth lies in
\* [-50, 200] too.
InClampRange(x) == RLe(RInt(-50), x) /\ RLe(x, RInt(200))
C12_BlendInputsClamped ==
    Done("blend") =>
        /\ InClampRange(calc.in.g_c)
        /\ InClampRange(calc.out.g_h_1)
        /\ InClampRange(calc.out.g_method1)

\* C13: the default historical growth is exactly 10.0 whenever the price
\* series is empty, has fewer than 252 points, its first or last price is not
\* strictly positive, or the span in years is not positive; otherwise it is
\* the price CAGR clamped to [-50, 200].  The CAGR is pinned down to the
\* tenth the root is taken to: with b = 1 + g/100, b^years <= last/first
\* unless g is the floor, and last/first < (b + 1/10)^years unless g is the
\* ceiling.
CagrDefined(span) ==
    /\ span.points >= 252
    /\ RLt(RInt(0), span.first) /\ RLt(RInt(0), span.last)
    /\ span.days > 0
C13_HistGrowthDefault ==
    Done("blend") =>
        LET span == calc.in.span
            g == calc.out.g_h_default
            b == RAdd(RInt(1), RDiv(g, RInt(100)))
            years == (span.days * 4) \div 1461
        IN  IF CagrDefined(span)
            THEN /\ InClampRange(g)
                 /\ RLt(RInt(-50), g) => RLe(RPow(b, years), RDiv(span.last, span.first))
                 /\ RLt(g, RInt(200)) =>
                        RLt(RDiv(span.last, span.first), RPow(RAdd(b, Rat(1, 10)), years))
            ELSE g = RInt(10)
\* a full history from 16 to 81 over four years: 50% a year, inside the clamp
C13_Witness ==
    /\ Done("blend")
    /\ calc.in.span = [points |-> 252, first |-> RInt(16), last |-> RInt(81), days |-> 1461]
    /\ calc.out.g_h_default = RInt(50)
----------------------------------------------------------------------------
(* Properties of the P/E band, under SpecBand.                             *)

PeWidgetsUntouched ==
    /\ calc.in.pe_low_user = Untouched
    /\ calc.in.pe_mid_user = Untouched
    /\ calc.in.pe_high_user = Untouched

\* C14: the recommended historical-P/E band is low = max(0, mean - 0.75 std)
\* * EPS, mid = mean * EPS, high = (mean + 0.75 std) * EPS with EPS the
\* trailing EPS; trailing EPS 5, mean 18 and std 4 give [75, 90, 105].
\* Stated on the claim's own example, with the forward EPS equal to the
\* trailing EPS and the three inputs left at the recommended values.
C14_RecommendedBand ==
    (/\ Done("band") /\ PeWidgetsUntouched
     /\ calc.in.data.hist_pe # <<>>
     /\ Mean(calc.in.data.hist_pe) = RInt(18)
     /\ Std(calc.in.data.hist_pe) = RInt(4)
     /\ calc.in.data.eps_ttm = RInt(5)
     /\ calc.in.data.eps_fwd = RInt(5)) =>
        LET pe_mean == Mean(calc.in.data.hist_pe)
            pe_std == Std(calc.in.data.hist_pe)
            eps == calc.in.data.eps_ttm
            spread == RMul(Rat(3, 4), pe_std)
        IN  /\ calc.out.applicable
            /\ REq(calc.out.price_low, RMul(PyMax(RInt(0), RSub(pe_mean, spread)), eps))
            /\ REq(calc.out.price_mid, RMul(pe_mean, eps))
            /\ REq(calc.out.price_high, RMul(RAdd(pe_mean, spread), eps))
            /\ calc.out.price_low = RInt(75)
            /\ calc.out.price_mid = RInt(90)
            /\ calc.out.price_high = RInt(105)

\* C15: whenever the P/E method produces a band (EPS used > 0) its prices
\* satisfy low <= mid <= high: for every historical P/E series, for the
\* fallback built from the forward P/E, and for every value the three P/E
\* inputs can take.  Taken where the three prices are numbers (a series of
\* one observation has no standard deviation and gives a high price of nan).
C15_BandOrdered ==
    (Done("band") /\ calc.out.applicable /\ ~IsNaN(calc.out.price_high)) =>
        /\ PyLe(calc.out.price_low, calc.out.price_mid)
        /\ PyLe(calc.out.price_mid, calc.out.price_high)

\* C16: when the trailing EPS is 0 or absent the P/E band method reports
\* not-applicable and shows no low/mid/high prices and no verdict, whatever
\* the historical P/E series and the forward EPS.
C16_NoTrailingEpsNoBand ==
    (Done("band") /\ calc.in.data.eps_ttm = RInt(0)) =>
        /\ ~calc.out.applicable
        /\ calc.out.verdict = "none"

\* C17: the P/E statistics are computed from the historical P/E series only
\* when it has at least 4 observations; with 1, 2 or 3 observations the
\* historical-statistics path is not used.
C17_StatsNeedFourObservations ==
    (Done("band") /\ calc.out.path = "historical") =>
        Len(calc.in.data.hist_pe) >= 4
----------------------------------------------------------------------------
(* Properties of the PEG ratio, under SpecPeg.                             *)

\* C19: the PEG ratio P/E / growth is computed only when the growth used is
\* strictly positive and the P/E used is strictly positive; in every other
\* case (growth <= 0, a recommended growth clamped to 0 included, or a P/E
\* absent or <= 0) the method reports insufficient data and divides nothing.
C19_PegOnlyWhenPositive ==
    (Done("peg") /\ calc.out.error = "") =>
        LET g == calc.out.g_blended
            pe == calc.in.data.pe_fwd
        IN  IF g.n > 0 /\ pe.n > 0
            THEN /\ calc.out.forward_peg.some
                 /\ REq(RMul(calc.out.forward_peg.v, g), pe)
                 /\ calc.out.peg_verdict # "insufficient data"
            ELSE /\ ~calc.out.forward_peg.some
                 /\ calc.out.peg_verdict = "insufficient data"
\* method 2 recommended for a mature large cap whose payout exceeds 1: the
\* sustainable growth is clamped to 0 and, with a forward P/E of 20, the PEG
\* section reports insufficient data
C19_Witness ==
    /\ Done("peg") /\ calc.out.error = ""
    /\ calc.out.method = 2
    /\ calc.in.data.payout_ratio = Rat(3, 2)
    /\ calc.out.g_blended = RInt(0)
    /\ calc.in.data.pe_fwd = RInt(20)
    /\ ~calc.out.forward_peg.some
    /\ calc.out.peg_verdict = "insufficient data"

PegIsTwo ==
    /\ Done("peg") /\ calc.out.error = ""
    /\ calc.in.data.pe_fwd = RInt(20)
    /\ calc.out.g_blended = RInt(10)
    /\ calc.out.forward_peg = Some(RInt(2))

\* C20, as stated: a PEG of exactly 2.0 (P/E 20 with growth 10) is classified
\* 'severely overvalued' by the five-tier PEG verdict.
C20_PegTwoSeverelyOvervalued ==
    PegIsTwo => calc.out.peg_verdict = "severely overvalued"
\* C20, amended: a PEG of exactly 2.0 (P/E 20 with growth 10) is classified
\* 'overvalued'; the verdict is 'severely overvalued' exactly when the PEG is
\* above 2.0.
C20_PegTwoOvervalued ==
    /\ PegIsTwo => calc.out.peg_verdict = "overvalued"
    /\ (Done("peg") /\ calc.out.forward_peg.some) =>
           (calc.out.peg_verdict = "severely overvalued"
               <=> RLt(RInt(2), calc.out.forward_peg.v))
C20_Witness ==
    /\ PegIsTwo
    /\ calc.out.peg_verdict = "overvalued"
----------------------------------------------------------------------------
(* Properties of the band verdict, under SpecBand.                         *)

\* the verdicts of a price inside the band: the band's own 'fair value
\* range' and, for the half below mid, 'moderately undervalued'
InsideVerdicts == {"moderately undervalued", "fair value range"}

\* C21: the band verdict is 'overvalued' only when price > high,
\* 'undervalued' only when price < low, and a price with low <= price <= high
\* (a price equal to low, mid or high included) gets a fair-value verdict.
\* Taken with the three inputs at their recommended values and a band of
\* numbers.
C21_VerdictBoundaries ==
    (/\ Done("band") /\ calc.out.applicable /\ PeWidgetsUntouched
     /\ ~IsNaN(calc.out.price_high)) =>
        LET price == calc.in.data.price
        IN  /\ calc.out.verdict = "overvalued" => RLt(calc.out.price_high, price)
            /\ calc.out.verdict = "significantly undervalued" =>
                   RLt(price, calc.out.price_low)
            /\ (RLe(calc.out.price_low, price) /\ RLe(price, calc.out.price_high)) =>
                   calc.out.verdict \in InsideVerdicts
----------------------------------------------------------------------------
(* Properties of the data-quality warning, under SpecPollution.            *)

\* forwardEPS / trailingEPS > 1.5, for figures that are present
EpsRatioHigh(d) ==
    /\ d.eps_ttm.n # 0 /\ d.eps_fwd.n # 0
    /\ RLt(Rat(3, 2), RDiv(d.eps_fwd, d.eps_ttm))
\* trailing P/E > 100 and a forward P/E, present, < 50
PeGapHigh(d) ==
    /\ RLt(RInt(100), d.pe_ttm)
    /\ RLt(RInt(0), d.pe_fwd) /\ RLt(d.pe_fwd, RInt(50))

\* C22: the trailing-earnings-unreliable flag is raised exactly when
\* forwardEPS / trailingEPS > 1.5 or (trailing P/E > 100 and forward P/E
\* < 50); in the second case also when the EPS ratio is at most 1.5 or the
\* EPS figures are absent.
C22_UnreliableFlag ==
    Done("pollution") =>
        (calc.out = "error" <=> (EpsRatioHigh(calc.in) \/ PeGapHigh(calc.in)))
----------------------------------------------------------------------------
(* Properties of the normalized price, under SpecPrice.                    *)

\* a price field that holds a usable number: present, not None, not 0
UsablePrice(f) == f.has /\ ~IsNone(f.v) /\ f.v.n > 0

\* C23: the normalized price is the first non-empty of {current price,
\* regular-market price}: with the current-price field present but empty
\* (None or 0) and a positive regular-market price, the result is the
\* regular-market price; it is 0 only when neither is usable.
C23_FirstNonEmptyPrice ==
    Done("price") =>
        LET cur == calc.in.currentPrice
            reg == calc.in.regularMarketPrice
        IN  /\ UsablePrice(cur) => calc.out = cur.v
            /\ (~UsablePrice(cur) /\ UsablePrice(reg)) => calc.out = reg.v
            /\ calc.out = RInt(0) => (~UsablePrice(cur) /\ ~UsablePrice(reg))
----------------------------------------------------------------------------
(* Properties of the forward-EPS adjustment, under Spec.                   *)

\* C24: in every snapshot with forward EPS and trailing EPS both strictly
\* positive the forward-EPS adjustment never applies: the EPS used for the
\* P/E band (fwd_eps_display) is the raw forward EPS, because forward EPS
\* < 0.5 * trailing EPS forces the consensus growth to -50, which fails the
\* adjustment's growth > -30 condition.
C24_NoAdjustmentWhenBothPositive ==
    (data.returned /\ BothEpsPositive(data)) =>
        /\ FwdEpsDisplay(data) = data.eps_fwd
        /\ RLt(data.eps_fwd, RMul(data.eps_ttm, Rat(1, 2))) =>
               data.g_consensus = RInt(-50)
\* forward EPS 1 against trailing EPS 4: the first two conditions of the
\* adjustment hold, the consensus growth is -50 and the page was rendered
\* with the raw forward EPS
C24_Witness ==
    /\ data.returned
    /\ data.eps_fwd = RInt(1) /\ data.eps_ttm = RInt(4)
    /\ data.g_consensus = RInt(-50)
    /\ FwdEpsDisplay(data) = RInt(1)
    /\ outcome.kind # "running"
    /\ "fwd_eps" \in {steps[j] : j \in DOMAIN steps}
====
